---- MODULE Spec2Model ----
(***************************************************************************)
(* Employee-file ingestion pipeline of nodejs-stream:                      *)
(*   parser -> recordCounter (throttle valve) -> EmployeeTransformer       *)
(*          -> BatchTransformer -> DatabaseWriter -> employees table       *)
(* with the MemoryMonitor sampling concurrently.                           *)
(*                                                                         *)
(* Strings that the code inspects character by character (names, email)    *)
(* are sequences of one-character strings.  A raw record carries `line`,   *)
(* the number of the input row it was parsed from, as its identity.        *)
(* A row of the employees table is [email, line]; line 0 marks a row that  *)
(* was in the table before this run (the table outlives the process).      *)
(***************************************************************************)
EXTENDS Integers, Sequences, FiniteSets, TLC

\* ---------------------------------------------------------------- bounds
MaxRows == 3          \* rows in the input file
MaxBatch == 2         \* largest explicitly configured batch size
HandoffCap == 1       \* capacity of a hand-off buffer between two stages
LongInput == 8        \* rows in the long input
MaxSamples == 125     \* ticks of the memory graph
MaxEmailLen == 5      \* longest email handed to the validator on its own
MaxTicks == 3         \* samples taken by the monitor on its own

\* ------------------------------------------------------ program constants
DefaultBatchSize == 100
thresholdMB == 512
maxDataPoints == 120
RestoreNum == 8       \* thresholdMB * 0.8, kept as the fraction 8 / 10
RestoreDen == 10
PerMB == 100          \* memoryGraph.js:215: samples are rounded to 1/100 MB
ThrottleDelayMs == 10     \* index.js:160
SummaryDelayMs == 1000    \* index.js:234
ExitDelayMs == 100        \* index.js:315

DuplicateMsg == "Failed to insert record (likely duplicate email)"
OtherMsg == "insert failed"

\* ---------------------------------------------------------------- inputs
EmailA == <<"a", "@", "b", ".", "c">>
EmailB == <<"d", "@", "e", ".", "f">>
NameA == <<"A">>
Blank == <<" ">>

\* heap-used samples (MB): below 0.8 * threshold, in the band (with its two
\* ends, 0.8 * 512 = 409.6), above threshold
Samples == {400, 410, 450, 512, 600}

\* the rows the parser may deliver (without their line number)
SampleRows ==
  { [first_name |-> NameA, last_name |-> NameA, email |-> EmailA, hire_date |-> "", salary |-> ""],
    [first_name |-> NameA, last_name |-> NameA, email |-> EmailB, hire_date |-> "", salary |-> ""],
    [first_name |-> Blank, last_name |-> NameA, email |-> EmailA, hire_date |-> "", salary |-> ""] }

\* every string of at most n of the given characters
RECURSIVE StringsUpTo(_, _)
StringsUpTo(chars, n) ==
  IF n = 0 THEN { <<>> }
  ELSE LET shorter == StringsUpTo(chars, n - 1)
       IN shorter \cup { Append(s, c) : s \in shorter, c \in chars }

\* the emails handed to the validator on its own
TestEmails == StringsUpTo({"a", "@", ".", " "}, MaxEmailLen)

\* the records handed to the validator on its own: every combination of
\* present, blank, absent, well-formed and ill-formed fields, and every test
\* email in an otherwise valid record
TestEmployees ==
  [first_name : {NameA, Blank, <<>>}, last_name : {NameA, Blank, <<>>},
   email : {EmailA, <<>>, <<"a">>}, hire_date : {"", "2020-01-15", "soon"},
   salary : {"", "50000", "-5", "lots"}]
  \cup
  [first_name : {NameA}, last_name : {NameA}, email : TestEmails,
   hire_date : {""}, salary : {""}]

\* tables that can hold rows from earlier runs
InitialStores == { <<>>, <<[email |-> EmailA, line |-> 0]>> }

\* --------------------------------------------------------------- helpers
RECURSIVE Concat(_)
Concat(ss) == IF ss = <<>> THEN <<>> ELSE Head(ss) \o Concat(Tail(ss))

Range(s) == { s[i] : i \in 1..Len(s) }

IsWhitespace(c) == c \in {" ", "\t", "\n", "\r"}

\* String.prototype.trim() === ''
TrimIsEmpty(s) == \A i \in 1..Len(s) : IsWhitespace(s[i])

\* ------------------------------------------------------------- validator
\* variant: any number of '@' is accepted
isValidEmail_anyAt(email) ==
  /\ email # <<>>
  /\ \A i \in 1..Len(email) : ~IsWhitespace(email[i])
  /\ \E at \in 2..Len(email), dot \in 1..Len(email) :
        /\ email[at] = "@"
        /\ email[dot] = "."
        /\ dot > at + 1
        /\ dot < Len(email)

\* /^[^\s@]+@[^\s@]+\.[^\s@]+$/
isValidEmail(email) ==
  /\ email # <<>>
  /\ \A i \in 1..Len(email) : ~IsWhitespace(email[i])
  /\ Cardinality({ i \in 1..Len(email) : email[i] = "@" }) = 1
  /\ \E at \in 2..Len(email), dot \in 1..Len(email) :
        /\ email[at] = "@"
        /\ email[dot] = "."
        /\ dot > at + 1
        /\ dot < Len(email)

\* isNaN(Date.parse(s)) on the date strings used here
DateIsNaN(s) == s \notin {"2020-01-15"}

\* parseFloat(s) on the salary strings used here: <<isNaN, value>>
ParseFloat(s) ==
  CASE s = "50000" -> [nan |-> FALSE, value |-> 50000]
    [] s = "-5"    -> [nan |-> FALSE, value |-> -5]
    [] OTHER       -> [nan |-> TRUE, value |-> 0]

\* variant: the first violated rule ends the validation
validateEmployee_shortCircuit(employee) ==
  LET e1 == IF employee.first_name = <<>> \/ TrimIsEmpty(employee.first_name)
            THEN <<"First name is required">> ELSE <<>>
      e2 == IF employee.last_name = <<>> \/ TrimIsEmpty(employee.last_name)
            THEN <<"Last name is required">> ELSE <<>>
      e3 == IF employee.email = <<>> THEN <<"Email is required">>
            ELSE IF ~isValidEmail(employee.email) THEN <<"Email format is invalid">>
            ELSE <<>>
      e4 == IF employee.hire_date # "" /\ DateIsNaN(employee.hire_date)
            THEN <<"Hire date is invalid">> ELSE <<>>
      e5 == IF employee.salary # ""
               /\ (ParseFloat(employee.salary).nan \/ ParseFloat(employee.salary).value < 0)
            THEN <<"Salary must be a positive number">> ELSE <<>>
      all == e1 \o e2 \o e3 \o e4 \o e5
      errors == IF all = <<>> THEN <<>> ELSE <<Head(all)>>
  IN [isValid |-> errors = <<>>, errors |-> errors]

\* validator.js:24-63
validateEmployee(employee) ==
  LET e1 == IF employee.first_name = <<>> \/ TrimIsEmpty(employee.first_name)
            THEN <<"First name is required">> ELSE <<>>
      e2 == IF employee.last_name = <<>> \/ TrimIsEmpty(employee.last_name)
            THEN <<"Last name is required">> ELSE <<>>
      e3 == IF employee.email = <<>> THEN <<"Email is required">>
            ELSE IF ~isValidEmail(employee.email) THEN <<"Email format is invalid">>
            ELSE <<>>
      e4 == IF employee.hire_date # "" /\ DateIsNaN(employee.hire_date)
            THEN <<"Hire date is invalid">> ELSE <<>>
      e5 == IF employee.salary # ""
               /\ (ParseFloat(employee.salary).nan \/ ParseFloat(employee.salary).value < 0)
            THEN <<"Salary must be a positive number">> ELSE <<>>
      errors == e1 \o e2 \o e3 \o e4 \o e5
  IN [isValid |-> errors = <<>>, errors |-> errors]

\* ----------------------------------------------------------------- state
VARIABLES
  batchSize,            \* BatchTransformer.batchSize
  validOnly,            \* BatchTransformer.validOnly
  shouldMonitorMemory,  \* index.js: DISABLE_MEMORY_MONITOR !== 'true'
  pc,                   \* processEmployeeFile: "setup", "running", "done", "failed"
  proc,                 \* the caller, the error, the pending timers, the exit
  inputEnded,           \* the parser has delivered its last row
  recordCount,          \* index.js recordCount
  held,                 \* chunk waiting in recordCounter's setTimeout (0 or 1)
  q1,                   \* recordCounter -> employeeTransformer
  etStats,              \* EmployeeTransformer.stats
  q2,                   \* employeeTransformer -> batchTransformer
  currentBatch,         \* BatchTransformer.currentBatch
  flushed,              \* BatchTransformer._flush has run
  batcherIn,            \* log: chunks handed to BatchTransformer._transform
  emitted,              \* log: batches pushed by BatchTransformer
  q3,                   \* batchTransformer -> dbWriter
  w,                    \* DatabaseWriter._write in progress
  wstats,               \* DatabaseWriter.stats
  txn,                  \* rows inserted by the open transaction, uncommitted
  store,                \* committed rows of the employees table
  storeUp,              \* the store can still be reached
  stats,                \* index.js stats
  running,              \* MemoryMonitor.running
  throttling,           \* MemoryMonitor.throttling
  signal,               \* transition event emitted on the latest sample
  lastSignal,           \* log: the latest transition event ever emitted
  checkedEmployee,      \* validator alone: the record under validation (0 or 1)
  checkedResult,        \* validator alone: what validateEmployee returned (0 or 1)
  heapUsedData,         \* MemoryGraph alone: memoryData.heapUsed
  captured,             \* MemoryGraph alone: samples captured so far
  maxMemoryUsed,        \* MemoryGraph.maxMemoryUsed, in the unit of the samples
  optThresholdMB,       \* MemoryMonitor.options.thresholdMB
  client                \* batchInsert alone: one call and the client it holds

pipelineVars ==
  << batchSize, validOnly, shouldMonitorMemory, pc, inputEnded, recordCount,
     held, q1, etStats, q2, currentBatch, flushed, batcherIn, emitted, q3,
     w, wstats, txn, store, stats, running, throttling, proc, storeUp,
     signal, lastSignal >>

\* the validator and the sample window, each exercised on its own
unitVars ==
  << checkedEmployee, checkedResult, heapUsedData, captured, maxMemoryUsed,
     optThresholdMB, client >>

vars == << pipelineVars, unitVars >>

cfgVars == << batchSize, validOnly, shouldMonitorMemory >>
counterVars == << inputEnded, recordCount, held >>
batcherVars == << currentBatch, flushed, batcherIn, emitted >>
writerVars == << w, wstats, txn, store, storeUp >>
monitorVars == << running, throttling, signal, lastSignal >>

\* BatchTransformer constructor: options.batchSize || 100 (0 stands for an
\* absent or zero option)
BatchSizeOf(option) == IF option = 0 THEN DefaultBatchSize ELSE option

IdleWriter == [pc |-> "idle", records |-> <<>>, valid |-> <<>>, i |-> 1,
               calls |-> <<>>, outcomes |-> <<>>, path |-> "none", acks |-> 0]

\* no caller has been answered, no timer is armed, the process is alive
FreshProcess == [caller |-> "none", error |-> "none", errorLogged |-> FALSE,
                 summaryTimer |-> "idle", exitTimer |-> "idle",
                 summaryPrinted |-> FALSE, exited |-> FALSE, exitCode |-> 0]

\* the pipeline of index.js:202-209 is at work in a live process
Running == pc = "running" /\ ~proc.exited

\* who awaits processEmployeeFile: main (index.js:298-320) or an importing module
Callers == {"main", "module"}

\* no call of batchInsert is followed statement by statement
IdleClient ==
  [pc |-> "idle", employees |-> <<>>, acquired |-> 0, releases |-> 0,
   begun |-> FALSE, statements |-> <<>>, result |-> "none"]

\* the validator and the sample window are not exercised on their own
UnitIdle ==
  /\ checkedEmployee = <<>>
  /\ checkedResult = <<>>
  /\ heapUsedData = <<>>
  /\ captured = 0
  /\ maxMemoryUsed = 0
  /\ optThresholdMB = thresholdMB
  /\ client = IdleClient

\* index.js:22-166: the state before processEmployeeFile has done anything,
\* for one configuration and one content of the employees table
PipelineInit(option, filter, monitor, table) ==
  /\ batchSize = BatchSizeOf(option)
  /\ validOnly = filter
  /\ shouldMonitorMemory = monitor
  /\ store = table
  /\ pc = "setup"
  /\ proc = FreshProcess
  /\ storeUp = TRUE
  /\ signal = "none"
  /\ lastSignal = "none"
  /\ inputEnded = FALSE
  /\ recordCount = 0
  /\ held = <<>>
  /\ q1 = <<>>
  /\ etStats = [processed |-> 0, valid |-> 0, invalid |-> 0, errors |-> <<>>]
  /\ q2 = <<>>
  /\ currentBatch = <<>>
  /\ flushed = FALSE
  /\ batcherIn = <<>>
  /\ emitted = <<>>
  /\ q3 = <<>>
  /\ w = IdleWriter
  /\ wstats = [totalProcessed |-> 0, successfulInserts |-> 0, failedInserts |-> 0,
               errors |-> <<>>]
  /\ txn = <<>>
  /\ stats = [totalRecords |-> 0, validRecords |-> 0, invalidRecords |-> 0,
              storedRecords |-> 0]
  /\ running = FALSE
  /\ throttling = FALSE

Init ==
  /\ \E option \in 0..MaxBatch, filter \in BOOLEAN, monitor \in BOOLEAN,
        table \in InitialStores : PipelineInit(option, filter, monitor, table)
  /\ UnitIdle

\* ----------------------------------------------------- processEmployeeFile
\* index.js:241-259 and 316-319: the catch stops the monitor and rethrows; when
\* the caller is main, its catch exits the process with code 1 at once
Rejected(error, caller) ==
  [proc EXCEPT !.caller = caller, !.error = error, !.errorLogged = TRUE,
               !.exited = (caller = "main"),
               !.exitCode = IF caller = "main" THEN 1 ELSE @]

\* what can happen before the pipeline is started: initDatabase rejects
\* (index.js:79), createReadStream throws (index.js:97, part_002:26-28) or the
\* counting pass meets a malformed row (index.js:171-191)
SetupOutcomes == {"ok", "store-unavailable", "file-not-found", "malformed-row"}

\* variant: the parser is lenient about the column count
strict_lenient == FALSE

\* part_002:39-46: createCSVParser's default, which index.js:91-94 and 175-178
\* leave alone; csv-parser then raises an error on a row whose column count
\* differs from the header's, instead of delivering it with the columns it has
strict == TRUE

\* a row with a column missing, as a lenient parser would deliver it
MalformedRow ==
  [first_name |-> NameA, last_name |-> NameA, email |-> <<>>, hire_date |-> "", salary |-> ""]

\* variant: a missing file does not stop the function from building the pipeline
StartsPipeline_ignoringMissing(outcome) == outcome \in {"ok", "file-not-found"}

\* index.js:79-199: the pipeline of line 202 is built and started only when
\* nothing before it threw; createReadStream (part_002:26-28) throws
\* 'File not found' before any stream exists
StartsPipeline(outcome) == outcome = "ok"

\* variant: the monitor is started whatever DISABLE_MEMORY_MONITOR says
StartsMonitor_always == TRUE

\* index.js:23 and 106: memoryMonitor.start() is called only when
\* DISABLE_MEMORY_MONITOR is not 'true'
StartsMonitor == shouldMonitorMemory

\* index.js:60-199
Setup ==
  /\ pc = "setup"
  /\ \E outcome \in SetupOutcomes :
       /\ (outcome = "malformed-row") => strict
       /\ pc' = IF StartsPipeline(outcome) THEN "running" ELSE "failed"
       /\ running' = (StartsPipeline(outcome) /\ StartsMonitor)
       /\ IF outcome = "ok"
          THEN proc' = proc
          ELSE \E caller \in Callers : proc' = Rejected(outcome, caller)
  /\ UNCHANGED << unitVars, cfgVars, counterVars, q1, etStats, q2, batcherVars, q3,
                  writerVars, stats, throttling, signal, lastSignal >>


\* ------------------------------------------------- recordCounter (valve)
\* variant: the valve consults the monitor only when monitoring is disabled
ShouldDelay_inverted == ~shouldMonitorMemory /\ throttling

\* index.js:155  if (shouldMonitorMemory && memoryMonitor.isThrottling())
ShouldDelay == shouldMonitorMemory /\ throttling

\* variant: under throttling the row is counted and then dropped
Deliver_dropWhenThrottled(row) ==
  LET chunk == [line |-> recordCount + 1, first_name |-> row.first_name,
                last_name |-> row.last_name, email |-> row.email,
                hire_date |-> row.hire_date, salary |-> row.salary]
  IN /\ recordCount' = recordCount + 1
     /\ held' = held
     /\ q1' = IF ShouldDelay THEN q1 ELSE Append(q1, chunk)

\* index.js:149-164, the body of the valve's transform: count the row, then
\* forward it at once or park it behind a 10 ms timer
Deliver(row) ==
  LET chunk == [line |-> recordCount + 1, first_name |-> row.first_name,
                last_name |-> row.last_name, email |-> row.email,
                hire_date |-> row.hire_date, salary |-> row.salary]
  IN /\ recordCount' = recordCount + 1
     /\ IF ShouldDelay
        THEN held' = <<[chunk |-> chunk, delay |-> ThrottleDelayMs]>> /\ q1' = q1
        ELSE held' = held /\ q1' = Append(q1, chunk)

\* variant: the delayed branch calls callback() at once and pushes later
ValveFree_always == TRUE

\* index.js:157-160: callback() is called in the timer, together with the
\* push, so the stream hands the valve no further row while one is parked
ValveFree == held = <<>>

\* index.js:147-165.  The parser delivers one row of an input of at most
\* `limit` rows; the valve counts it and either forwards it at once or parks
\* it behind a 10 ms timer.
Admit(row, limit) ==
  /\ Running
  /\ ~inputEnded
  /\ recordCount < limit
  /\ ValveFree
  /\ Len(q1) < HandoffCap
  /\ Deliver(row)
  /\ UNCHANGED << unitVars, cfgVars, proc, pc, inputEnded, etStats, q2, batcherVars, q3,
                  writerVars, stats, monitorVars >>

\* the valve, for an input of at most MaxRows rows
CounterTransform(row) == Admit(row, MaxRows)

\* variant: the callback consults the monitor again and forwards the record
\* only once throttling has ended
ForwardsWhenFired_recheck == ~throttling

\* index.js:158-159: the callback pushes the chunk without reading
\* ThrottleState again
ForwardsWhenFired == TRUE

\* index.js:157-160, the timer callback: push(chunk); callback()
CounterTimerFire ==
  /\ Running
  /\ held # <<>>
  /\ ForwardsWhenFired
  /\ q1' = Append(q1, held[1].chunk)
  /\ held' = <<>>
  /\ UNCHANGED << unitVars, cfgVars, proc, pc, inputEnded, recordCount, etStats, q2, batcherVars,
                  q3, writerVars, stats, monitorVars >>

\* the parser reaches the end of the file
ParserEnd ==
  /\ Running
  /\ ~inputEnded
  /\ inputEnded' = TRUE
  /\ UNCHANGED << unitVars, cfgVars, proc, pc, recordCount, held, q1, etStats, q2, batcherVars,
                  q3, writerVars, stats, monitorVars >>

\* ---------------------------------------------------- EmployeeTransformer
\* part_002:179-219
\* variant: the invalid branch forgets this.stats.invalid++
EmployeeStatsAfter_noInvalid(st, chunk, validation) ==
  IF validation.isValid
  THEN [st EXCEPT !.processed = @ + 1, !.valid = @ + 1]
  ELSE [st EXCEPT !.processed = @ + 1,
                  !.errors = Append(@, [record |-> chunk, errors |-> validation.errors])]

\* variant: the record is counted as valid before it is validated
EmployeeStatsAfter_validFirst(st, chunk, validation) ==
  IF validation.isValid
  THEN [st EXCEPT !.processed = @ + 1, !.valid = @ + 1]
  ELSE [st EXCEPT !.processed = @ + 1, !.valid = @ + 1, !.invalid = @ + 1,
                  !.errors = Append(@, [record |-> chunk, errors |-> validation.errors])]

EmployeeStatsAfter(st, chunk, validation) ==
  IF validation.isValid
  THEN [st EXCEPT !.processed = @ + 1, !.valid = @ + 1]
  ELSE [st EXCEPT !.processed = @ + 1, !.invalid = @ + 1,
                  !.errors = Append(@, [record |-> chunk, errors |-> validation.errors])]

EmployeeTransform ==
  /\ Running
  /\ q1 # <<>>
  /\ Len(q2) < HandoffCap
  /\ LET chunk == Head(q1)
         validation == validateEmployee(chunk)
     IN /\ etStats' = EmployeeStatsAfter(etStats, chunk, validation)
        /\ q2' = Append(q2, [data |-> chunk, valid |-> validation.isValid,
                             errors |-> validation.errors])
  /\ q1' = Tail(q1)
  /\ UNCHANGED << unitVars, cfgVars, proc, pc, counterVars, batcherVars, q3, writerVars, stats,
                  monitorVars >>

\* ------------------------------------------------------- BatchTransformer
\* variant: invalid records are dropped whatever validOnly says
Skipped_ignoringFlag(chunk) == ~chunk.valid

\* part_002:261  if (this.validOnly && !chunk.valid) skip
Skipped(chunk) == validOnly /\ ~chunk.valid

\* variant: unshift instead of push
AddToBatch_unshift(batch, chunk) == <<chunk>> \o batch

\* part_002:267  this.currentBatch.push(chunk)
AddToBatch(batch, chunk) == Append(batch, chunk)

\* variant: a batch is pushed one record before it is full
BatchIsFull_early(batch) == Len(batch) >= batchSize - 1

\* variant: > instead of >=
BatchIsFull_strict(batch) == Len(batch) > batchSize

\* part_002:270  this.currentBatch.length >= this.batchSize
BatchIsFull(batch) == Len(batch) >= batchSize

\* part_002:258-279
BatchTransform ==
  /\ Running
  /\ q2 # <<>>
  /\ Len(q3) < HandoffCap
  /\ LET chunk == Head(q2)
         grown == AddToBatch(currentBatch, chunk)
     IN /\ batcherIn' = Append(batcherIn, chunk)
        /\ IF Skipped(chunk)
           THEN UNCHANGED << currentBatch, emitted, q3 >>
           ELSE IF BatchIsFull(grown)
                THEN /\ q3' = Append(q3, grown)
                     /\ emitted' = Append(emitted, grown)
                     /\ currentBatch' = <<>>
                ELSE /\ currentBatch' = grown
                     /\ UNCHANGED << emitted, q3 >>
  /\ q2' = Tail(q2)
  /\ UNCHANGED << unitVars, cfgVars, proc, pc, counterVars, q1, etStats, flushed, writerVars,
                  stats, monitorVars >>

\* variant: the flush drops what is left in the batch being filled
FlushEmits_never(batch) == FALSE

\* part_002:286  if (this.currentBatch.length > 0)
FlushEmits(batch) == Len(batch) > 0

\* part_002:285-291, run once when every upstream stage has ended
BatchFlush ==
  /\ Running
  /\ inputEnded /\ held = <<>> /\ q1 = <<>> /\ q2 = <<>>
  /\ ~flushed
  /\ flushed' = TRUE
  /\ IF FlushEmits(currentBatch)
     THEN /\ q3' = Append(q3, currentBatch)
          /\ emitted' = Append(emitted, currentBatch)
          /\ currentBatch' = <<>>
     ELSE UNCHANGED << currentBatch, emitted, q3 >>
  /\ UNCHANGED << unitVars, cfgVars, proc, pc, counterVars, q1, etStats, q2, batcherIn,
                  writerVars, stats, monitorVars >>


\* --------------------------------------------------------- employees table
Emails(rows) == { rows[i].email : i \in 1..Len(rows) }

RowOf(employee) == [email |-> employee.email, line |-> employee.line]

RECURSIVE RowsOf(_)
RowsOf(employees) ==
  IF employees = <<>> THEN <<>> ELSE <<RowOf(Head(employees))>> \o RowsOf(Tail(employees))

\* email VARCHAR(255) UNIQUE: a multi-row INSERT violates the constraint when
\* an email is already committed or occurs twice in the statement
ViolatesUnique(employees) ==
  \/ \E i \in 1..Len(employees) : employees[i].email \in Emails(store)
  \/ \E i, j \in 1..Len(employees) : i # j /\ employees[i].email = employees[j].email

\* ---------------------------------------------------------- DatabaseWriter
\* variant: no filter, every record of the batch is mapped to its data
KeptByFilter_all(record) == TRUE

\* database.js:47-48  the filter's test, record => record.valid
KeptByFilter(record) == record.valid

\* database.js:47-49  records.filter(record => record.valid).map(record => record.data)
RECURSIVE ValidEmployees(_)
ValidEmployees(records) ==
  IF records = <<>> THEN <<>>
  ELSE (IF KeptByFilter(Head(records)) THEN <<Head(records).data>> ELSE <<>>)
       \o ValidEmployees(Tail(records))

\* an async _write that has begun runs to its end unless the process exits:
\* destroying the stream (stream/promises pipeline, index.js:202-209) does not
\* interrupt the awaits of database.js:36-97
InFlight == pc \in {"running", "failed"} /\ ~proc.exited

\* variant: _write is called for the next batch while one is being written
WriterFree_always == TRUE

\* database.js:36 and 97: a Writable calls _write for the next chunk only
\* after the callback of the previous call
WriterFree == w.pc = "idle"

\* database.js:36-56: take the next batch, count it, pick the valid employees
WriterStart ==
  /\ Running
  /\ WriterFree
  /\ q3 # <<>>
  /\ LET records == Head(q3)
         validEmployees == ValidEmployees(records)
     IN /\ wstats' = [wstats EXCEPT !.totalProcessed = @ + Len(records)]
        /\ w' = [pc |-> IF Len(validEmployees) = 0 THEN "idle" ELSE "batchInsert",
                 records |-> records, valid |-> validEmployees, i |-> 1,
                 calls |-> <<>>, outcomes |-> <<>>, path |-> "none",
                 acks |-> IF Len(validEmployees) = 0 THEN 1 ELSE 0]
  /\ q3' = Tail(q3)
  /\ UNCHANGED << unitVars, cfgVars, proc, pc, counterVars, q1, etStats, q2, batcherVars, txn,
                  store, storeUp, stats, monitorVars >>

\* part_003:87-134, Employee.batchInsert up to the INSERT statement.
\*   getClient rejects: thrown before the try, no ROLLBACK;
\*   BEGIN or INSERT rejects: control goes to the catch (ROLLBACK);
\*   INSERT succeeds: every row is pending in the transaction.
\* An unreachable store hands out no client.  The call was made by _write
\* before any stream error, so it runs on after the pipeline has failed.
BatchInsertStatement ==
  /\ InFlight
  /\ w.pc = "batchInsert"
  /\ \/ /\ w' = [w EXCEPT !.pc = "fallback", !.path = "fallback"]
        /\ txn' = txn
     \/ /\ storeUp
        /\ w' = [w EXCEPT !.pc = "rollback"]
        /\ txn' = txn
     \/ /\ storeUp
        /\ ~ViolatesUnique(w.valid)
        /\ w' = [w EXCEPT !.pc = "commit"]
        /\ txn' = RowsOf(w.valid)
  /\ UNCHANGED << unitVars, cfgVars, proc, pc, counterVars, q1, etStats, q2, batcherVars, q3,
                  wstats, store, storeUp, stats, monitorVars >>

\* variant: += records.length (the whole chunk, invalid records included)
CountBatch_chunkLength(st, insertedIds) ==
  [st EXCEPT !.successfulInserts = @ + Len(w.records)]

\* variant: successfulInserts++ (the batch counted as one insert)
CountBatch_increment(st, insertedIds) ==
  [st EXCEPT !.successfulInserts = @ + 1]

\* database.js:61  this.stats.successfulInserts += insertedIds.length
CountBatch(st, insertedIds) ==
  [st EXCEPT !.successfulInserts = @ + Len(insertedIds)]

\* part_003:135-137 and database.js:60-61: COMMIT, then the ids are counted;
\* a rejected COMMIT goes to the catch
BatchCommit ==
  /\ InFlight
  /\ w.pc = "commit"
  /\ \/ /\ store' = store \o txn
        /\ txn' = <<>>
        /\ wstats' = CountBatch(wstats, txn)
        /\ w' = [w EXCEPT !.pc = "idle", !.path = "batch", !.acks = @ + 1]
     \/ /\ w' = [w EXCEPT !.pc = "rollback"]
        /\ UNCHANGED << store, txn, wstats >>
  /\ UNCHANGED << unitVars, cfgVars, proc, pc, counterVars, q1, etStats, q2, batcherVars, q3,
                  storeUp, stats, monitorVars >>

\* part_003:138-144: ROLLBACK discards the pending rows (when the ROLLBACK is
\* itself rejected the connection is gone and the server discards them), the
\* error is rethrown and DatabaseWriter enters its fallback loop
BatchRollback ==
  /\ InFlight
  /\ w.pc = "rollback"
  /\ txn' = <<>>
  /\ w' = [w EXCEPT !.pc = "fallback", !.path = "fallback"]
  /\ UNCHANGED << unitVars, cfgVars, proc, pc, counterVars, q1, etStats, q2, batcherVars, q3,
                  wstats, store, storeUp, stats, monitorVars >>

\* part_003:60-79, Employee.insert: "inserted", "null" (unique violation,
\* code 23505) or "throw" (any other error); pool.query of an unreachable
\* store can only reject
InsertOutcomes(employee) ==
  IF ~storeUp THEN {"throw"}
  ELSE IF employee.email \in Emails(store) THEN {"null", "throw"}
  ELSE {"inserted", "throw"}

\* variant: the catch of a thrown insert forgets failedInserts++
CountSingle_throwUncounted(st, employee, outcome) ==
  CASE outcome = "inserted" -> [st EXCEPT !.successfulInserts = @ + 1]
    [] outcome = "null" ->
         [st EXCEPT !.failedInserts = @ + 1,
                    !.errors = Append(@, [record |-> employee, error |-> DuplicateMsg])]
    [] OTHER ->
         [st EXCEPT !.errors = Append(@, [record |-> employee, error |-> OtherMsg])]

\* variant: if (inserted !== undefined), so a null result counts as inserted
CountSingle_nullInserted(st, employee, outcome) ==
  CASE outcome \in {"inserted", "null"} -> [st EXCEPT !.successfulInserts = @ + 1]
    [] OTHER ->
         [st EXCEPT !.failedInserts = @ + 1,
                    !.errors = Append(@, [record |-> employee, error |-> OtherMsg])]

\* variant: a null result counts as failed but is not recorded in errors
CountSingle_nullUnrecorded(st, employee, outcome) ==
  CASE outcome = "inserted" -> [st EXCEPT !.successfulInserts = @ + 1]
    [] outcome = "null" -> [st EXCEPT !.failedInserts = @ + 1]
    [] OTHER ->
         [st EXCEPT !.failedInserts = @ + 1,
                    !.errors = Append(@, [record |-> employee, error |-> OtherMsg])]

\* database.js:69-84: tally one per-record outcome
CountSingle(st, employee, outcome) ==
  CASE outcome = "inserted" -> [st EXCEPT !.successfulInserts = @ + 1]
    [] outcome = "null" ->
         [st EXCEPT !.failedInserts = @ + 1,
                    !.errors = Append(@, [record |-> employee, error |-> DuplicateMsg])]
    [] OTHER ->
         [st EXCEPT !.failedInserts = @ + 1,
                    !.errors = Append(@, [record |-> employee, error |-> OtherMsg])]

\* variant: no inner try/catch, a thrown insert leaves the loop
LoopEnds_onThrow(wr, outcome) == wr.i = Len(wr.valid) \/ outcome = "throw"

\* database.js:66-85: the loop goes on to the next employee after any outcome
LoopEnds(wr, outcome) == wr.i = Len(wr.valid)

\* variant: callback(error) for a thrown insert, which destroys the pipeline
WriteCallbackError_onThrow(outcome) == outcome = "throw"

\* database.js:78-88 and 89-96: every path of _write ends in callback() with
\* no argument, so the stream never sees an error of the store
WriteCallbackError(outcome) == FALSE

\* variant: callback() sits inside the loop, after every insert
AckDue_eachRecord(wr, outcome) == TRUE

\* database.js:66-88: callback() is the statement after the fallback loop
AckDue(wr, outcome) == LoopEnds(wr, outcome)

\* database.js:66-85: one iteration of the fallback loop
FallbackInsert ==
  /\ InFlight
  /\ w.pc = "fallback"
  /\ LET employee == w.valid[w.i]
     IN \E outcome \in InsertOutcomes(employee) :
          /\ store' = IF outcome = "inserted" THEN Append(store, RowOf(employee)) ELSE store
          /\ wstats' = CountSingle(wstats, employee, outcome)
          /\ w' = [w EXCEPT !.i = @ + 1, !.calls = Append(@, employee),
                            !.outcomes = Append(@, outcome),
                            !.pc = IF LoopEnds(w, outcome) THEN "idle" ELSE "fallback",
                            !.acks = IF AckDue(w, outcome) THEN @ + 1 ELSE @]
          /\ pc' = IF WriteCallbackError(outcome) THEN "failed" ELSE pc
  /\ UNCHANGED << unitVars, cfgVars, proc, counterVars, q1, etStats, q2, batcherVars, q3,
                  txn, storeUp, stats, monitorVars >>

\* config/database.js:10-29 (the pool of connections to one PostgreSQL server):
\* the server becomes unreachable while a batch is being written and stays
\* so.  When an idle client of the pool sees its socket fail, the pool's
\* 'error' handler ends the process with process.exit(-1); when the loss is
\* silent (packets dropped) nothing is told and later calls are rejected.
StoreGoesDown ==
  /\ Running
  /\ storeUp
  /\ w.pc = "batchInsert"
  /\ storeUp' = FALSE
  /\ \E noticed \in BOOLEAN :
       proc' = IF noticed
               THEN [proc EXCEPT !.error = "idle-client-error",
                                 !.errorLogged = TRUE,
                                 !.exited = TRUE, !.exitCode = -1]
               ELSE proc
  /\ UNCHANGED << unitVars, cfgVars, pc, counterVars, q1, etStats, q2, batcherVars, q3,
                  w, wstats, txn, store, stats, monitorVars >>

\* ----------------------------------------------------------- MemoryMonitor
\* the thresholds (options.thresholdMB, MAX_MEMORY_USAGE_MB; database.js:156)
\* the hysteresis rule is evaluated for
Thresholds == {96, 100, 512}

\* database.js:243  thresholdMB * 0.8  is a product of IEEE-754 doubles; for the
\* thresholds above it evaluates to 76.80000000000001, 80 and 409.6.  A
\* sample is Math.round(x * 100) / 100 (memoryGraph.js:214-216), the double
\* nearest to a whole number of hundredths; 76.8 is below 76.80000000000001.
\* TRUE when the computed product lies above the double of the exact product.
ProductRoundsUp(threshold) == threshold \in {96}

\* database.js:243  currentUsageMB < (thresholdMB * 0.8), the sample in
\* hundredths of a MB
BelowRestoreLevel(threshold, heapUsed) ==
  \/ heapUsed * RestoreDen < threshold * PerMB * RestoreNum
  \/ /\ heapUsed * RestoreDen = threshold * PerMB * RestoreNum
     /\ ProductRoundsUp(threshold)

\* database.js:229-251 (memoryMonitor): this.throttling after one heap-used
\* sample, given in hundredths of a MB
ThrottlingFor(threshold, current, heapUsed) ==
  IF heapUsed > threshold * PerMB
  THEN (IF ~current THEN TRUE ELSE current)
  ELSE IF current /\ BelowRestoreLevel(threshold, heapUsed)
       THEN FALSE
       ELSE current

\* database.js:233-251 (memoryMonitor): the transition event of one sample,
\* given in hundredths of a MB
SignalFor(threshold, current, heapUsed) ==
  IF heapUsed > threshold * PerMB
  THEN (IF ~current THEN "threshold-exceeded" ELSE "none")
  ELSE IF current /\ BelowRestoreLevel(threshold, heapUsed)
       THEN "threshold-restored"
       ELSE "none"

\* variant: throttling ends as soon as a sample is not above the threshold
ThrottlingAfter_noBand(current, heapUsedMB) == heapUsedMB > thresholdMB

\* database.js:229-251 (memoryMonitor), on one heap-used sample in whole MB
\* under the default threshold
ThrottlingAfter(current, heapUsedMB) ==
  ThrottlingFor(thresholdMB, current, heapUsedMB * PerMB)

\* variant: 'threshold-exceeded' is emitted on every sample above the
\* threshold, not only on the change
SignalOf_everySample(current, heapUsedMB) ==
  IF heapUsedMB > thresholdMB
  THEN "threshold-exceeded"
  ELSE IF current /\ heapUsedMB * RestoreDen < thresholdMB * RestoreNum
       THEN "threshold-restored"
       ELSE "none"

\* database.js:233-251 (memoryMonitor): the transition event of one sample in
\* whole MB under the default threshold
SignalOf(current, heapUsedMB) ==
  SignalFor(thresholdMB, current, heapUsedMB * PerMB)

\* database.js:229-255 (memoryMonitor), the handler of the graph's 'memory'
\* event
OnMemoryUpdate(heapUsedMB) ==
  /\ running
  /\ ~proc.exited
  /\ throttling' = ThrottlingAfter(throttling, heapUsedMB)
  /\ signal' = SignalOf(throttling, heapUsedMB)
  /\ lastSignal' = IF signal' = "none" THEN lastSignal ELSE signal'
  /\ UNCHANGED << cfgVars, proc, pc, counterVars, q1, etStats, q2, batcherVars, q3,
                  writerVars, stats, running >>

\* memoryGraph.js:164-192 emits 'memory' on every tick of its interval while
\* the monitor runs; as the pipeline sees a tick, with the content of the
\* graph's sample window left aside
MonitorSample(heapUsedMB) ==
  /\ OnMemoryUpdate(heapUsedMB)
  /\ UNCHANGED unitVars

\* two timers armed in the same turn of the event loop: the one with the
\* shorter delay fires first
FiresBefore(delay, otherTimer, otherDelay) ==
  otherTimer = "pending" => delay <= otherDelay

\* index.js:225-234, the summary timer: memoryMonitor.stop() (database.js:207-222)
\* and then printSummary()
MonitorStop ==
  /\ pc = "done"
  /\ ~proc.exited
  /\ proc.summaryTimer = "pending"
  /\ FiresBefore(SummaryDelayMs, proc.exitTimer, ExitDelayMs)
  /\ running' = FALSE
  /\ proc' = [proc EXCEPT !.summaryTimer = "fired", !.summaryPrinted = TRUE]
  /\ UNCHANGED << unitVars, cfgVars, pc, counterVars, q1, etStats, q2, batcherVars, q3,
                  writerVars, stats, throttling, signal, lastSignal >>

\* index.js:313-315, the exit timer of main: process.exit(0)
ExitTimerFire ==
  /\ ~proc.exited
  /\ proc.exitTimer = "pending"
  /\ FiresBefore(ExitDelayMs, proc.summaryTimer, SummaryDelayMs)
  /\ proc' = [proc EXCEPT !.exitTimer = "fired", !.exited = TRUE, !.exitCode = 0]
  /\ UNCHANGED << unitVars, cfgVars, pc, counterVars, q1, etStats, q2, batcherVars, q3,
                  writerVars, stats, monitorVars >>

\* ----------------------------------------------------- processEmployeeFile
\* index.js:224-237 and 309-315: with monitoring the summary waits for its
\* timer, without it the summary is printed at once; main then arms its exit
Resolved(caller) ==
  [proc EXCEPT !.caller = caller,
               !.summaryTimer = IF shouldMonitorMemory THEN "pending" ELSE @,
               !.summaryPrinted = ~shouldMonitorMemory,
               !.exitTimer = IF caller = "main" THEN "pending" ELSE @]

\* index.js:202-239: the pipeline promise resolves, the counters are copied
PipelineDone ==
  /\ Running
  /\ flushed
  /\ q3 = <<>>
  /\ w.pc = "idle"
  /\ pc' = "done"
  /\ stats' = [totalRecords |-> recordCount,
               validRecords |-> etStats.valid,
               invalidRecords |-> etStats.invalid,
               storedRecords |-> wstats.successfulInserts]
  /\ \E caller \in Callers : proc' = Resolved(caller)
  /\ UNCHANGED << unitVars, cfgVars, counterVars, q1, etStats, q2, batcherVars, q3,
                  writerVars, monitorVars >>

\* index.js:202-209 and 241-259: the next row the csv parser reads (strict:
\* true, part_002:39-46) is malformed and the parser emits 'error'; pipeline
\* destroys every stage and rejects; the catch stops the monitor and rethrows
ParserError ==
  /\ Running
  /\ ~inputEnded
  /\ held = <<>>
  /\ Len(q1) < HandoffCap
  /\ IF strict
     THEN /\ pc' = "failed"
          /\ running' = FALSE
          /\ \E caller \in Callers : proc' = Rejected("malformed-row", caller)
          /\ UNCHANGED << counterVars, q1 >>
     ELSE /\ recordCount < MaxRows
          /\ Deliver(MalformedRow)
          /\ UNCHANGED << pc, running, proc, inputEnded >>
  /\ UNCHANGED << unitVars, cfgVars, etStats, q2, batcherVars, q3,
                  writerVars, stats, throttling, signal, lastSignal >>

Next ==
  \/ Setup
  \/ \E row \in SampleRows : CounterTransform(row)
  \/ CounterTimerFire
  \/ ParserEnd
  \/ ParserError
  \/ EmployeeTransform
  \/ BatchTransform
  \/ BatchFlush
  \/ WriterStart
  \/ BatchInsertStatement
  \/ BatchCommit
  \/ BatchRollback
  \/ FallbackInsert
  \/ StoreGoesDown
  \/ \E h \in Samples : MonitorSample(h)
  \/ MonitorStop
  \/ ExitTimerFire
  \/ PipelineDone

Spec == Init /\ [][Next]_vars

\* ------------------------------------------------------- a long input
\* a row the validator rejects (its first name is blank)
InvalidRow ==
  [first_name |-> Blank, last_name |-> NameA, email |-> EmailA, hire_date |-> "", salary |-> ""]

\* index.js:42-166 for: batch size 1, validity filtering on, monitoring off,
\* an empty employees table
LongInit ==
  /\ PipelineInit(1, TRUE, FALSE, <<>>)
  /\ UnitIdle

\* index.js:147-165: the valve, for an input of at most LongInput rows, every
\* one of which the validator will reject
LongIntake == Admit(InvalidRow, LongInput)

\* the steps of a run whose rows are all invalid: nothing reaches the writer
LongNext ==
  \/ Setup
  \/ LongIntake
  \/ ParserEnd
  \/ ParserError
  \/ EmployeeTransform
  \/ BatchTransform
  \/ BatchFlush
  \/ PipelineDone
  \/ ExitTimerFire

LongSpec == LongInit /\ [][LongNext]_vars

\* ------------------------------------------------ the validator alone
\* a record is handed to validateEmployee; the pipeline is not started
ValidatorInit ==
  /\ PipelineInit(0, TRUE, FALSE, <<>>)
  /\ checkedEmployee \in { <<employee>> : employee \in TestEmployees }
  /\ checkedResult = <<>>
  /\ heapUsedData = <<>>
  /\ captured = 0
  /\ maxMemoryUsed = 0
  /\ optThresholdMB = thresholdMB
  /\ client = IdleClient

\* validator.js:24-63: the call returns
Validate ==
  /\ checkedEmployee # <<>>
  /\ checkedResult = <<>>
  /\ checkedResult' = << validateEmployee(checkedEmployee[1]) >>
  /\ UNCHANGED << pipelineVars, checkedEmployee, heapUsedData, captured, maxMemoryUsed,
                  optThresholdMB, client >>

ValidatorNext == Validate

ValidatorSpec == ValidatorInit /\ [][ValidatorNext]_vars

\* --------------------------------------------------- the sample window
\* the heap-used figure of the i-th capture: every capture reads another one
HeapAt(i) == 400 + i

\* variant: the newest sample is dropped instead of the oldest
updateDataCollection_pop(data, value) ==
  LET pushed == Append(data, value)
  IN IF Len(pushed) > maxDataPoints THEN SubSeq(pushed, 1, Len(pushed) - 1) ELSE pushed

\* memoryGraph.js:200-207  push, then shift once the length exceeds maxDataPoints
updateDataCollection(data, value) ==
  LET pushed == Append(data, value)
  IN IF Len(pushed) > maxDataPoints THEN Tail(pushed) ELSE pushed

\* memoryGraph.js:168-171  if (heapUsedMB > this.maxMemoryUsed) ...
MaxAfter(max, heapUsed) == IF heapUsed > max THEN heapUsed ELSE max

\* memoryGraph.js:164-192, one tick of the graph's interval: the sample is
\* stored in the window and handed to the monitor
captureMemoryUsage ==
  /\ captured < MaxSamples
  /\ LET heapUsedMB == HeapAt(captured + 1)
     IN /\ maxMemoryUsed' = MaxAfter(maxMemoryUsed, heapUsedMB)
        /\ heapUsedData' = updateDataCollection(heapUsedData, heapUsedMB)
        /\ OnMemoryUpdate(heapUsedMB)
  /\ captured' = captured + 1
  /\ UNCHANGED << checkedEmployee, checkedResult, optThresholdMB, client >>

\* memoryGraph.js:337  heapUsed.reduce((acc, val) => acc + val, 0)
RECURSIVE SumOf(_)
SumOf(data) == IF data = <<>> THEN 0 ELSE Head(data) + SumOf(Tail(data))

\* memoryGraph.js:327-345  getStats(); the average sum / length is kept as the
\* pair of its numerator and denominator
getStats(data, max) ==
  IF Len(data) = 0
  THEN [current |-> 0, max |-> 0, sum |-> 0, length |-> 1]
  ELSE [current |-> data[Len(data)], max |-> max, sum |-> SumOf(data), length |-> Len(data)]

\* index.js:42-166 with monitoring enabled; the window is empty
\* (memoryGraph.js:24-29)
WindowInit ==
  /\ PipelineInit(0, TRUE, TRUE, <<>>)
  /\ UnitIdle

\* the monitor is started and its graph ticks
WindowNext ==
  \/ Setup
  \/ captureMemoryUsage

WindowSpec == WindowInit /\ [][WindowNext]_vars

\* ------------------------------------------------- the monitor alone
\* heap-used samples, in hundredths of a MB, around the two levels of a
\* threshold: just below, at and just above 0.8 x threshold, inside the
\* band, at the threshold and just above it
SamplesAround(threshold) ==
  { threshold * 80 - 1, threshold * 80, threshold * 80 + 1,
    threshold * 90, threshold * PerMB, threshold * PerMB + 1 }

\* database.js:150-180 and memoryGraph.js:11-35: a monitor constructed with
\* one of the thresholds, not started, its window empty; no file is processed
MonitorInit ==
  /\ PipelineInit(0, TRUE, TRUE, <<>>)
  /\ checkedEmployee = <<>>
  /\ checkedResult = <<>>
  /\ heapUsedData = <<>>
  /\ captured = 0
  /\ maxMemoryUsed = 0
  /\ optThresholdMB \in Thresholds
  /\ client = IdleClient

\* variant: start() has no guard and starts the graph again
StartReturnsEarly_never == FALSE

\* database.js:186 and memoryGraph.js:116  if (this.running) return;
StartReturnsEarly == running

\* database.js:185-203 and memoryGraph.js:115-127: start() arms the interval
\* and resets the running maximum; the window is left as it is
MemoryMonitorStart ==
  /\ IF StartReturnsEarly
     THEN UNCHANGED << running, maxMemoryUsed >>
     ELSE running' = TRUE /\ maxMemoryUsed' = 0
  /\ UNCHANGED << cfgVars, proc, pc, counterVars, q1, etStats, q2, batcherVars, q3,
                  writerVars, stats, throttling, signal, lastSignal,
                  checkedEmployee, checkedResult, heapUsedData, captured,
                  optThresholdMB, client >>

\* database.js:208-222 and memoryGraph.js:132-158: stop() clears the interval
\* and removes the listener; throttling is not touched
MemoryMonitorStop ==
  /\ running' = FALSE
  /\ UNCHANGED << cfgVars, proc, pc, counterVars, q1, etStats, q2, batcherVars, q3,
                  writerVars, stats, throttling, signal, lastSignal, unitVars >>

\* memoryGraph.js:164-192 and database.js:229-255, one tick of the interval
\* armed by start(): the sample is recorded and handed to the monitor
MemoryTick(heapUsed) ==
  /\ running
  /\ captured < MaxTicks
  /\ maxMemoryUsed' = MaxAfter(maxMemoryUsed, heapUsed)
  /\ heapUsedData' = updateDataCollection(heapUsedData, heapUsed)
  /\ captured' = captured + 1
  /\ throttling' = ThrottlingFor(optThresholdMB, throttling, heapUsed)
  /\ signal' = SignalFor(optThresholdMB, throttling, heapUsed)
  /\ lastSignal' = IF signal' = "none" THEN lastSignal ELSE signal'
  /\ UNCHANGED << cfgVars, proc, pc, counterVars, q1, etStats, q2, batcherVars, q3,
                  writerVars, stats, running, checkedEmployee, checkedResult,
                  optThresholdMB, client >>

MonitorNext ==
  \/ MemoryMonitorStart
  \/ MemoryMonitorStop
  \/ \E heapUsed \in SamplesAround(optThresholdMB) : MemoryTick(heapUsed)

MonitorSpec == MonitorInit /\ [][MonitorNext]_vars

\* ------------------------------------------- batchInsert and its client
\* the argument of batchInsert: at most MaxBatch employee data objects
EmployeeLists == StringsUpTo(SampleRows, MaxBatch)

\* index.js:42-166 idle; Employee.batchInsert has been called with a list
BatchInsertInit ==
  /\ PipelineInit(0, TRUE, FALSE, <<>>)
  /\ checkedEmployee = <<>>
  /\ checkedResult = <<>>
  /\ heapUsedData = <<>>
  /\ captured = 0
  /\ maxMemoryUsed = 0
  /\ optThresholdMB = thresholdMB
  /\ client \in { [IdleClient EXCEPT !.pc = "called", !.employees = employees] :
                    employees \in EmployeeLists }

\* client.query(text): the statement is sent on the held client
Sent(cl, text, ok) == [cl EXCEPT !.statements = Append(@, [text |-> text, ok |-> ok])]

\* variant: release() is the last statement of the try block
Finally_onSuccess(cl) ==
  [cl EXCEPT !.releases = IF cl.result = "ids" THEN @ + 1 ELSE @]

\* part_003:142-144 and config/database.js:33-42: finally { client.release() },
\* the wrapper restores the pool's release and calls it once
Finally(cl) == [cl EXCEPT !.releases = @ + 1]

\* part_003:88-91: an empty list returns [] before any client is asked for;
\* db.getClient() resolves with a client or rejects outside the try
BatchInsertEnter ==
  /\ client.pc = "called"
  /\ IF Len(client.employees) = 0
     THEN client' = [client EXCEPT !.pc = "returned", !.result = "empty"]
     ELSE \/ client' = [client EXCEPT !.pc = "begin", !.acquired = @ + 1]
          \/ client' = [client EXCEPT !.pc = "thrown", !.result = "throws"]
  /\ UNCHANGED << pipelineVars, checkedEmployee, checkedResult, heapUsedData, captured,
                  maxMemoryUsed, optThresholdMB >>

\* part_003:94-95: await client.query('BEGIN'); a rejection goes to the catch
ClientBegin ==
  /\ client.pc = "begin"
  /\ \/ client' = [Sent(client, "BEGIN", TRUE) EXCEPT !.pc = "insert", !.begun = TRUE]
     \/ client' = [Sent(client, "BEGIN", FALSE) EXCEPT !.pc = "rollback"]
  /\ UNCHANGED << pipelineVars, checkedEmployee, checkedResult, heapUsedData, captured,
                  maxMemoryUsed, optThresholdMB >>

\* part_003:97-134: the multi-row INSERT; a rejection goes to the catch
ClientInsert ==
  /\ client.pc = "insert"
  /\ \/ client' = [Sent(client, "INSERT", TRUE) EXCEPT !.pc = "commit"]
     \/ client' = [Sent(client, "INSERT", FALSE) EXCEPT !.pc = "rollback"]
  /\ UNCHANGED << pipelineVars, checkedEmployee, checkedResult, heapUsedData, captured,
                  maxMemoryUsed, optThresholdMB >>

\* part_003:135-137: COMMIT, then the ids are returned through the finally
ClientCommit ==
  /\ client.pc = "commit"
  /\ \/ client' = [Sent(client, "COMMIT", TRUE) EXCEPT !.pc = "finally", !.result = "ids"]
     \/ client' = [Sent(client, "COMMIT", FALSE) EXCEPT !.pc = "rollback"]
  /\ UNCHANGED << pipelineVars, checkedEmployee, checkedResult, heapUsedData, captured,
                  maxMemoryUsed, optThresholdMB >>

\* part_003:138-141: the catch awaits ROLLBACK and throws; when ROLLBACK
\* itself rejects, that rejection is thrown instead, through the same finally
ClientRollback ==
  /\ client.pc = "rollback"
  /\ \E ok \in BOOLEAN :
       client' = [Sent(client, "ROLLBACK", ok) EXCEPT !.pc = "finally", !.result = "throws"]
  /\ UNCHANGED << pipelineVars, checkedEmployee, checkedResult, heapUsedData, captured,
                  maxMemoryUsed, optThresholdMB >>

\* part_003:142-144: the finally block, then the call returns or throws
ClientRelease ==
  /\ client.pc = "finally"
  /\ client' = [Finally(client) EXCEPT !.pc = IF client.result = "ids" THEN "returned" ELSE "thrown"]
  /\ UNCHANGED << pipelineVars, checkedEmployee, checkedResult, heapUsedData, captured,
                  maxMemoryUsed, optThresholdMB >>

BatchInsertNext ==
  \/ BatchInsertEnter
  \/ ClientBegin
  \/ ClientInsert
  \/ ClientCommit
  \/ ClientRollback
  \/ ClientRelease

BatchInsertSpec == BatchInsertInit /\ [][BatchInsertNext]_vars

\* a timer armed by setTimeout fires once its delay has elapsed in a live
\* process (index.js:157-160); nothing is assumed of the monitor's ticks, of
\* the store or of the input
FairSpec == Spec /\ WF_vars(CounterTimerFire)


\* ============================================================ properties
Lines(employees) == { employees[i].line : i \in 1..Len(employees) }

\* number of positions of seq whose element satisfies Test
Count(seq, Test(_)) == Cardinality({ i \in 1..Len(seq) : Test(seq[i]) })

\* the batched records, in emission order
AllBatched == Concat(emitted)

\* C1: every batch the BatchTransformer emits has between 1 and batchSize
\* records; it never emits an empty batch, on a full batch or on the flush.
C1_BatchLength ==
  \A k \in 1..Len(emitted) : Len(emitted[k]) >= 1 /\ Len(emitted[k]) <= batchSize

\* a full batch was emitted and the flush emitted a shorter last one
C1_Witness ==
  /\ flushed
  /\ Len(emitted) >= 2
  /\ Len(emitted[1]) = batchSize
  /\ Len(emitted[Len(emitted)]) < batchSize

\* C2: after the flush every record that entered the batcher is in no batch
\* when it is invalid and filtering is on, and otherwise in exactly one batch,
\* at exactly one place; the batches hold nothing else.
C2_Conservation ==
  flushed =>
    /\ \A i \in 1..Len(batcherIn) :
         LET c == batcherIn[i]
             occurrences == Count(AllBatched, LAMBDA b : b.data.line = c.data.line)
         IN IF validOnly /\ ~c.valid THEN occurrences = 0 ELSE occurrences = 1
    /\ \A b \in Range(AllBatched) : b \in Range(batcherIn)

\* filtering is off and an invalid record was batched next to a valid one
C2_Witness ==
  /\ flushed
  /\ ~validOnly
  /\ \E b \in Range(AllBatched) : ~b.valid
  /\ \E b \in Range(AllBatched) : b.valid
  /\ Len(emitted) >= 2

\* C3: the emitted batches, concatenated in emission order, are the records
\* admitted to the batcher in their arrival order.
C3_Order ==
  flushed => AllBatched = SelectSeq(batcherIn, LAMBDA c : ~(validOnly /\ ~c.valid))

\* three records were admitted and crossed a batch boundary
C3_Witness ==
  /\ flushed
  /\ Len(emitted) = 2
  /\ Len(emitted[1]) = 2
  /\ Len(AllBatched) = 3

\* C4: after full consumption the reported total equals the reported valid
\* count plus the reported invalid count.
C4_TotalIsSum ==
  pc = "done" => stats.totalRecords = stats.validRecords + stats.invalidRecords

\* a finished run over valid and invalid rows
C4_Witness ==
  /\ pc = "done"
  /\ stats.validRecords >= 1
  /\ stats.invalidRecords >= 1
  /\ stats.totalRecords = MaxRows

\* C5 as stated: in every state the count of parsed records (recordCount, the
\* figure reported as the total) equals valid + invalid, and stored <= valid.
C5_AsStated ==
  /\ recordCount = etStats.valid + etStats.invalid
  /\ wstats.successfulInserts <= etStats.valid

\* C5 amended: in every state the validator's own count of processed records
\* equals valid + invalid, stored <= valid, and recordCount exceeds
\* valid + invalid by exactly the records the valve has counted and the
\* validator has not seen yet (parked in the valve or in its hand-off buffer).
C5_MidRun ==
  /\ etStats.processed = etStats.valid + etStats.invalid
  /\ wstats.successfulInserts <= etStats.valid
  /\ recordCount = etStats.valid + etStats.invalid + Len(held) + Len(q1)

\* a record is parked in the valve while a batch is being written
C5_Witness ==
  /\ held # <<>>
  /\ w.pc \in {"commit", "fallback"}
  /\ etStats.valid >= 1
  /\ recordCount > etStats.valid + etStats.invalid

\* C6: after a run with validity filtering, inserted + failed = valid,
\* whatever mix of batched successes, batched failures and per-record
\* outcomes occurred.
C6_Accounted ==
  (pc = "done" /\ validOnly) =>
    wstats.successfulInserts + wstats.failedInserts = etStats.valid

\* a finished filtered run that dropped an invalid row, stored a record and
\* counted a duplicate as failed
C6_Witness ==
  /\ pc = "done"
  /\ validOnly
  /\ etStats.invalid >= 1
  /\ wstats.successfulInserts >= 1
  /\ \E k \in 1..Len(wstats.errors) : wstats.errors[k].error = DuplicateMsg

\* C7: the stored count never exceeds the valid count.
C7_StoredAtMostValid ==
  wstats.successfulInserts <= etStats.valid

\* batched successes and a fallback with failures have all happened
C7_Witness ==
  /\ w.pc = "idle"
  /\ w.path = "batch"
  /\ wstats.failedInserts >= 1
  /\ wstats.successfulInserts >= 2

CommitStep == w.pc = "commit" /\ w'.pc = "idle"

\* C9 as stated: on a batched success the inserted count grows by the batch
\* length, the failed count is unchanged, no per-record insert is attempted.
C9_AsStated ==
  [][CommitStep =>
       /\ wstats'.successfulInserts = wstats.successfulInserts + Len(w.records)
       /\ wstats'.failedInserts = wstats.failedInserts
       /\ w'.calls = <<>>]_vars

\* C9 amended: on a batched success the inserted count grows by the number of
\* records of the batch flagged valid (the batch length when filtering is on),
\* the failed count is unchanged, and no per-record insert is attempted for
\* that batch.
C9_BatchedSuccess ==
  /\ [][CommitStep =>
          /\ wstats'.successfulInserts = wstats.successfulInserts + Len(w.valid)
          /\ wstats'.failedInserts = wstats.failedInserts
          /\ wstats'.errors = wstats.errors
          /\ w'.path = "batch"]_vars
  /\ [](w.path = "batch" => w.pc = "idle" /\ w.calls = <<>>)
  /\ [](validOnly => Len(w.valid) = Len(w.records))

\* a batch of two records was committed in one transaction
C9_Witness ==
  /\ w.path = "batch"
  /\ Len(w.records) = 2
  /\ Len(w.valid) = 2
  /\ wstats.successfulInserts = 2

\* the valid employees of the input, known once the run is over
ValidInput == ValidEmployees(batcherIn)

Stored(e) == Count(store, LAMBDA r : r.line = e.line)
Failed(e) == Count(wstats.errors, LAMBDA x : x.record.line = e.line)
FailedWith(e, msg) ==
  \E k \in 1..Len(wstats.errors) :
    wstats.errors[k].record.line = e.line /\ wstats.errors[k].error = msg

\* pairs of valid records of the input sharing their email, earlier one first
SameEmailPairs ==
  { p \in Range(ValidInput) \X Range(ValidInput) :
      p[1].line < p[2].line /\ p[1].email = p[2].email }

\* a batch holds both records
SameBatch(a, b) ==
  \E k \in 1..Len(emitted) :
    {a.line, b.line} \subseteq { emitted[k][i].data.line : i \in 1..Len(emitted[k]) }

\* C10 as stated: of two valid records sharing an email exactly one is stored
\* and the other is counted as failed (granted that no insert of the run
\* failed for a reason other than the unique constraint).
C10_AsStated ==
  (pc = "done" /\ \A k \in 1..Len(wstats.errors) : wstats.errors[k].error = DuplicateMsg) =>
    \A p \in SameEmailPairs :
      \/ Stored(p[1]) = 1 /\ Failed(p[1]) = 0 /\ Stored(p[2]) = 0 /\ Failed(p[2]) = 1
      \/ Stored(p[2]) = 1 /\ Failed(p[2]) = 0 /\ Stored(p[1]) = 0 /\ Failed(p[1]) = 1

\* the email was not in the table before the run, no earlier valid record of
\* the input carries it, and no insert of the record failed for a reason other
\* than the unique constraint
FirstAndHealthy(a) ==
  /\ \A k \in 1..Len(store) : store[k].line = 0 => store[k].email # a.email
  /\ \A e \in Range(ValidInput) : e.email = a.email => e.line >= a.line
  /\ ~FailedWith(a, OtherMsg)

\* C10 amended: of two valid records sharing an email, in one batch or in
\* two, each is counted exactly once, as stored or as failed (so stored +
\* failed for the pair is 2), and at most one is stored; the earlier one is
\* stored and the later one counted as failed when the email was not in the
\* table before the run, no earlier record carries it, and the earlier
\* record's insert did not fail for another reason.
C10_DuplicatePair ==
  pc = "done" =>
    \A p \in SameEmailPairs :
      /\ Stored(p[1]) + Failed(p[1]) = 1
      /\ Stored(p[2]) + Failed(p[2]) = 1
      /\ Stored(p[1]) + Stored(p[2]) <= 1
      /\ FirstAndHealthy(p[1]) =>
           Stored(p[1]) = 1 /\ Stored(p[2]) = 0 /\ Failed(p[2]) = 1

\* one email three times: a duplicate in the batch of the stored record and
\* one in a later batch, both reported as duplicates
C10_Witness ==
  /\ pc = "done"
  /\ \E p \in SameEmailPairs, q \in SameEmailPairs :
       /\ p[1] = q[1]
       /\ FirstAndHealthy(p[1])
       /\ SameBatch(p[1], p[2])
       /\ ~SameBatch(q[1], q[2])
       /\ Stored(p[1]) = 1
       /\ FailedWith(p[2], DuplicateMsg)
       /\ FailedWith(q[2], DuplicateMsg)

\* ------------------------------------------------------------------- C11
Last(seq) == seq[Len(seq)]

\* this step is one iteration of the fallback loop and its insert ended so
InsertStep(outcome) ==
  /\ Len(w'.outcomes) = Len(w.outcomes) + 1
  /\ Last(w'.outcomes) = outcome

\* C11 as stated: a unique-key violation met by a per-record insert is
\* recorded with the reason duplicate-email.
C11_AsStated ==
  [][InsertStep("null") =>
       /\ Len(wstats'.errors) = Len(wstats.errors) + 1
       /\ Last(wstats'.errors).error = "duplicate-email"]_vars

\* C11 amended: a unique-key violation on email met by a per-record insert is
\* non-fatal (no stream error, the loop goes on to the next record of the
\* batch), adds one to the failed count and nothing to the inserted count,
\* and is recorded with the record and the message "Failed to insert record
\* (likely duplicate email)".
C11_DuplicateRecorded ==
  [][InsertStep("null") =>
       /\ pc' = pc
       /\ w'.pc = IF w.i = Len(w.valid) THEN "idle" ELSE "fallback"
       /\ w'.i = w.i + 1
       /\ wstats'.failedInserts = wstats.failedInserts + 1
       /\ wstats'.successfulInserts = wstats.successfulInserts
       /\ wstats'.errors =
            Append(wstats.errors, [record |-> w.valid[w.i], error |-> DuplicateMsg])]_vars

\* a per-record insert has just met the unique constraint, with another
\* record of the batch still to insert
C11_Witness ==
  /\ w.pc = "fallback"
  /\ w.outcomes # <<>>
  /\ Last(w.outcomes) = "null"
  /\ wstats.errors # <<>>
  /\ Last(wstats.errors).error = DuplicateMsg

\* ------------------------------------------------------------------- C12
AllThrown(outcomes) == \A k \in 1..Len(outcomes) : outcomes[k] = "throw"

\* the store was unreachable for a whole batch: the batched attempt failed
\* and every per-record insert was rejected
LostBatch ==
  /\ ~storeUp
  /\ w.pc = "idle"
  /\ w.path = "fallback"
  /\ Len(w.outcomes) = Len(w.valid)
  /\ AllThrown(w.outcomes)

\* C12 as stated: total loss of connectivity to the store is fatal; once a
\* batch has been lost to it the pipeline has been aborted (the run has
\* failed, or the process is gone).
C12_AsStated == LostBatch => (pc = "failed" \/ proc.exited)

\* ------------------------------------------------------------------- C13
\* this step tallies a data-level error: a record found invalid, or a
\* per-record insert that met a duplicate key or was rejected
InvalidStep == etStats'.invalid = etStats.invalid + 1
FailedInsertStep == wstats'.failedInserts = wstats.failedInserts + 1

\* C13: a validation failure, a duplicate-key failure or any per-record
\* insert failure never makes a stage raise a stream error nor
\* processEmployeeFile reject: the step that tallies it leaves the run
\* running and the writer goes on with the batch; and when the run resolves,
\* every parsed record was validated and every valid one was given to the
\* store, whatever failed before it.
C13_NeverInterrupts ==
  /\ [][(InvalidStep \/ FailedInsertStep) => (pc' = pc /\ proc' = proc)]_vars
  /\ [][InvalidStep => Len(q2') = Len(q2) + 1]_vars
  /\ [][FailedInsertStep =>
          /\ w'.pc = IF w.i = Len(w.valid) THEN "idle" ELSE "fallback"
          /\ w'.i = w.i + 1]_vars
  /\ [](pc = "done" =>
          /\ etStats.valid + etStats.invalid = recordCount
          /\ wstats.successfulInserts + wstats.failedInserts = etStats.valid)

\* a resolved run in which a record was found invalid, an insert failed,
\* and a record read after the failed one was stored
C13_Witness ==
  /\ pc = "done"
  /\ etStats.invalid > 0
  /\ \E k \in 1..Len(wstats.errors), r \in 1..Len(store) :
       wstats.errors[k].record.line < store[r].line

\* ------------------------------------------------------------------- C14
\* C14: ThrottleState follows the hysteresis rule on every sample: from
\* false it turns true exactly when the sample is above thresholdMB; from true
\* it turns false exactly when the sample is below 0.8 x thresholdMB, and
\* stays true on a sample inside the band; nothing but a sample changes it.
C14_Hysteresis ==
  /\ [][monitorVars' # monitorVars =>
          \A h \in Samples : MonitorSample(h) =>
            /\ (~throttling => (throttling' <=> h > thresholdMB))
            /\ (throttling =>
                  (~throttling' <=> h * RestoreDen < thresholdMB * RestoreNum))]_vars
  /\ [][throttling' # throttling => \E h \in Samples : MonitorSample(h)]_vars

\* the state went on and came back off, and a later sample has left it off
C14_Witness ==
  /\ running
  /\ ~throttling
  /\ lastSignal = "threshold-restored"
  /\ signal = "none"

\* ------------------------------------------------------------------- C15
\* C15: each change of ThrottleState emits exactly one signal,
\* 'threshold-exceeded' for false to true and 'threshold-restored' for true
\* to false, and a sample that does not change the state emits none; so the
\* two signals alternate, 'threshold-exceeded' first, and isThrottling()
\* equals the state implied by the last signal emitted.
C15_OneSignalPerChange ==
  /\ [][monitorVars' # monitorVars /\ (\E h \in Samples : MonitorSample(h)) =>
          /\ (signal' = "threshold-exceeded") <=> (~throttling /\ throttling')
          /\ (signal' = "threshold-restored") <=> (throttling /\ ~throttling')
          /\ (signal' = "none") <=> (throttling' = throttling)
          /\ signal' = "threshold-exceeded" =>
                lastSignal \in {"none", "threshold-restored"}
          /\ signal' = "threshold-restored" => lastSignal = "threshold-exceeded"
          /\ lastSignal' = IF signal' = "none" THEN lastSignal ELSE signal']_vars
  /\ [](throttling <=> lastSignal = "threshold-exceeded")

\* a sample has just turned the state off and emitted 'threshold-restored',
\* after the 'threshold-exceeded' that had turned it on
C15_Witness ==
  /\ running
  /\ ~throttling
  /\ signal = "threshold-restored"
  /\ lastSignal = "threshold-restored"

\* ------------------------------------------------------------------- C16
\* this step admits one record to the valve
AdmitStep == recordCount' = recordCount + 1

\* C16: the valve reads ThrottleState when it admits a record: if throttling
\* the record is not forwarded in that step but parked behind a timer of
\* 10 ms, and forwarded, unchanged, only when that timer fires; if not
\* throttling the record is forwarded in the same step.
C16_Valve ==
  /\ [][AdmitStep =>
          IF throttling
          THEN /\ q1' = q1
               /\ Len(held') = 1
               /\ held'[1].chunk.line = recordCount'
               /\ held'[1].delay = ThrottleDelayMs
          ELSE /\ held' = <<>>
               /\ Len(q1') = Len(q1) + 1
               /\ Last(q1').line = recordCount']_vars
  /\ [][held # <<>> /\ held' # held =>
          /\ CounterTimerFire
          /\ q1' = Append(q1, held[1].chunk)]_vars
  /\ ThrottleDelayMs = 10

\* a record admitted while throttling waits behind its 10 ms timer
C16_Witness ==
  /\ throttling
  /\ held # <<>>
  /\ held[1].delay = ThrottleDelayMs
  /\ held[1].chunk.line = recordCount

CleanExit ==
  /\ pc = "done"
  /\ proc.caller = "main"
  /\ proc.exited
  /\ proc.exitCode = 0

\* C18 as stated: on clean completion of a run started through main the
\* final summary is printed before the process exits, with memory monitoring
\* enabled and with it disabled.
C18_AsStated == CleanExit => proc.summaryPrinted

\* ------------------------------------------------------------------- C19
\* what the stages hold and what they have written
stageVars == << held, q1, etStats, q2, currentBatch, emitted, q3, w, wstats, txn, store >>

\* C19 as stated: once a fatal error has aborted the run, the monitor's
\* sampling is stopped, the error is with the caller, and no stage processes
\* a record or writes a batch any more.
C19_AsStated ==
  /\ [](pc = "failed" => (~running /\ proc.error # "none" /\ proc.caller # "none"))
  /\ [][pc = "failed" => UNCHANGED stageVars]_vars

\* ------------------------------------------------------------------- C20
\* the input was read to its end and the store never became unreachable
SuccessfulPass == pc = "done" /\ storeUp

\* C20 as stated: the process exits with code 0 after a full successful
\* pass over the input, invalid and duplicate records notwithstanding, and
\* with a non-zero code after a missing file, a malformed input or total
\* store unavailability.
C20_AsStated ==
  proc.exited => IF SuccessfulPass THEN proc.exitCode = 0 ELSE proc.exitCode # 0

\* ------------------------------------------------------------------- C21
\* the process has signalled failure through its exit code
FailureExit == proc.exited /\ proc.exitCode # 0

\* C21 as stated: on a fatal abort the error and the partial counters
\* gathered so far (parsed, valid, invalid, stored: the lines of
\* printSummary) have been reported when the process signals failure through
\* its exit code.
C21_AsStated == FailureExit => (proc.errorLogged /\ proc.summaryPrinted)

\* ------------------------------------------------------------------- C22
\* nothing has entered any stage and nothing has been sent to the store
NothingProcessed ==
  /\ ~inputEnded /\ recordCount = 0 /\ held = <<>> /\ q1 = <<>>
  /\ etStats.processed = 0 /\ q2 = <<>> /\ batcherIn = <<>> /\ emitted = <<>>
  /\ q3 = <<>> /\ w = IdleWriter /\ txn = <<>> /\ wstats.totalProcessed = 0

\* C22: when the source file does not exist, createReadStream throws a
\* file-not-found error before any stream exists: the pipeline is never
\* started, no record is parsed, no batch is written, and
\* processEmployeeFile rejects.
C22_MissingFile ==
  (proc.error = "file-not-found") =>
     /\ pc = "failed"
     /\ NothingProcessed
     /\ proc.caller \in Callers /\ proc.errorLogged /\ ~proc.summaryPrinted

\* an importing module called with a missing file and got the rejection
C22_Witness ==
  proc.error = "file-not-found" /\ proc.caller = "module" /\ pc = "failed"

\* ------------------------------------------------------------------- C23
\* the row a record came from, without its line number
CsvRowOf(chunk) ==
  [first_name |-> chunk.first_name, last_name |-> chunk.last_name,
   email |-> chunk.email, hire_date |-> chunk.hire_date, salary |-> chunk.salary]

\* C23: a malformed row met by the parser, in the counting pass or in the
\* main pass, is a fatal stream error: the pipeline is aborted,
\* processEmployeeFile rejects, and the malformed row never reaches the
\* validator, so it is never counted as an invalid record.
C23_MalformedRowFatal ==
  /\ (proc.error = "malformed-row") =>
        /\ pc = "failed" /\ ~running
        /\ proc.caller \in Callers /\ proc.errorLogged
        /\ (proc.caller = "main") => (proc.exited /\ proc.exitCode = 1)
  /\ \A i \in 1..Len(etStats.errors) : CsvRowOf(etStats.errors[i].record) # MalformedRow
  /\ \A i \in 1..Len(q1) : CsvRowOf(q1[i]) # MalformedRow
  /\ etStats.invalid = Len(etStats.errors)
  /\ etStats.processed <= recordCount

\* the main pass met a malformed row after an invalid record had been counted
C23_Witness ==
  /\ proc.error = "malformed-row" /\ pc = "failed"
  /\ recordCount = 2 /\ etStats.invalid = 1

\* ------------------------------------------------------------------- C24
RECURSIVE TotalLen(_)
TotalLen(batches) ==
  IF batches = <<>> THEN 0 ELSE Len(Head(batches)) + TotalLen(Tail(batches))

\* the records the pipeline holds on to: the parked record, the hand-off
\* buffers, the batch being filled, the batches waiting for the writer, the
\* batch being written, and the records kept in the stages' statistics
Retained ==
  Len(held) + Len(q1) + Len(q2) + Len(currentBatch) + TotalLen(q3)
    + Len(w.records) + Len(etStats.errors) + Len(wstats.errors)

\* what the configured capacities allow: one parked record, two hand-off
\* buffers of records, one batch being filled, one hand-off buffer of
\* batches, one batch being written
CapacityBound ==
  1 + HandoffCap + HandoffCap + batchSize + HandoffCap * batchSize + batchSize

\* C24 as stated: at every point of a run the number of records the pipeline
\* retains (stage buffers, in-progress batch, batch being written, per-stage
\* statistics) is bounded by a constant that depends on the configured
\* capacities only, not on the number of input rows.
C24_AsStated == Retained <= CapacityBound

\* ------------------------------------------------------------------- C25
\* the length the last batch should have when `total` records were batched
LastLength(total) ==
  IF total % batchSize # 0 THEN total % batchSize ELSE batchSize

\* the records the batcher did not skip
AdmittedToBatcher == SelectSeq(batcherIn, LAMBDA c : ~(validOnly /\ ~c.valid))

\* C25 as stated: after the flush the last batch emitted has length
\* (totalValid mod B) when that is nonzero and B otherwise.
C25_AsStated ==
  (flushed /\ emitted # <<>>) => Len(Last(emitted)) = LastLength(etStats.valid)

\* C25 amended: after the flush the last batch emitted has length (m mod B)
\* when that is nonzero and B otherwise, m being the number of records the
\* batcher admitted (the valid ones when filtering is on, all of them when it
\* is off); every batch before the last is full; and the flush happens
\* exactly once, at end-of-input, after the full batches: it emits at most
\* the one partial batch and nothing is emitted after it.
C25_LastBatch ==
  [][ /\ flushed' =>
           /\ currentBatch' = <<>>
           /\ \A i \in 1..(Len(emitted') - 1) : Len(emitted'[i]) = batchSize
           /\ (emitted' # <<>>) =>
                 Len(emitted'[Len(emitted')]) = LastLength(Len(AdmittedToBatcher'))
      /\ (~flushed /\ flushed') =>
           /\ inputEnded /\ q2 = <<>>
           /\ Len(emitted') <= Len(emitted) + 1
           /\ (Len(emitted') = Len(emitted) + 1) =>
                 Len(emitted'[Len(emitted')]) < batchSize
      /\ flushed => (flushed' /\ emitted' = emitted) ]_vars

\* filtering is off: a full batch holding an invalid record was emitted, and
\* the flush emitted the one record left over
C25_Witness ==
  /\ flushed /\ ~validOnly /\ batchSize = 2
  /\ Len(emitted) = 2 /\ Len(emitted[2]) = 1
  /\ etStats.invalid >= 1

\* ------------------------------------------------------------------- C26
\* the rows of the input that break a rule of the validator
InvalidInput == SelectSeq(batcherIn, LAMBDA c : ~validateEmployee(c.data).isValid)

\* C26: for an input of n rows of which k are invalid, run with validity
\* filtering and capacity B, the finished run reports invalidCount = k and
\* validCount = n - k, and the batcher has emitted exactly ceil((n - k) / B)
\* batches whose lengths sum to n - k.
C26_EndToEnd ==
  (pc = "done" /\ validOnly) =>
     LET n == recordCount
         k == Len(InvalidInput)
     IN /\ Len(batcherIn) = n
        /\ stats.totalRecords = n
        /\ stats.invalidRecords = k
        /\ stats.validRecords = n - k
        /\ Len(emitted) = (n - k + batchSize - 1) \div batchSize
        /\ TotalLen(emitted) = n - k

\* three rows, one of them invalid, capacity 2: one batch of two and nothing
\* left for the flush
C26_Witness ==
  /\ pc = "done" /\ validOnly /\ batchSize = 2
  /\ recordCount = 3 /\ stats.invalidRecords = 1
  /\ Len(emitted) = 1

\* ------------------------------------------------------------------- C27
Min(a, b) == IF a <= b THEN a ELSE b

\* C27: the monitor keeps only the most recent maxDataPoints (120) heap-used
\* samples: after any number of captures the window's length is
\* min(captured, 120) and it holds the last captures in capture order.
C27_Window ==
  /\ Len(heapUsedData) = Min(captured, maxDataPoints)
  /\ \A i \in 1..Len(heapUsedData) :
        heapUsedData[i] = HeapAt(captured - Len(heapUsedData) + i)

\* more samples were captured than the window holds: the oldest ones are gone
C27_Witness ==
  /\ captured = maxDataPoints + 3
  /\ Len(heapUsedData) = maxDataPoints
  /\ heapUsedData[1] = HeapAt(4)
  /\ heapUsedData[maxDataPoints] = HeapAt(captured)

\* ------------------------------------------------------------------- C28
\* C28: when DISABLE_MEMORY_MONITOR is true the monitor is never started, so
\* it never takes a sample, ThrottleState stays false for the whole run, no
\* threshold event is emitted and the valve never parks a record.
C28_MonitorSkipped ==
  (~shouldMonitorMemory) =>
     /\ ~running
     /\ ~throttling
     /\ signal = "none" /\ lastSignal = "none"
     /\ held = <<>>
     /\ proc.summaryTimer = "idle"

\* a whole input went through with the monitor disabled
C28_Witness ==
  /\ ~shouldMonitorMemory
  /\ pc = "done" /\ recordCount = MaxRows
  /\ proc.summaryPrinted

\* ------------------------------------------------------------------- C29
\* the rules of the validator in their order, each with the message it owes
\* for a record that violates it (<<>> when the record satisfies it)
RuleMessage(rule, employee) ==
  CASE rule = 1 ->
         IF employee.first_name = <<>> \/ TrimIsEmpty(employee.first_name)
         THEN <<"First name is required">> ELSE <<>>
    [] rule = 2 ->
         IF employee.last_name = <<>> \/ TrimIsEmpty(employee.last_name)
         THEN <<"Last name is required">> ELSE <<>>
    [] rule = 3 ->
         IF employee.email = <<>> THEN <<"Email is required">>
         ELSE IF ~isValidEmail(employee.email) THEN <<"Email format is invalid">>
         ELSE <<>>
    [] rule = 4 ->
         IF employee.hire_date \notin {"", "2020-01-15"}
         THEN <<"Hire date is invalid">> ELSE <<>>
    [] rule = 5 ->
         IF employee.salary \notin {"", "50000"}
         THEN <<"Salary must be a positive number">> ELSE <<>>

ViolatedRules(employee) == { rule \in 1..5 : RuleMessage(rule, employee) # <<>> }

\* C29: validateEmployee evaluates every rule: the errors it returns hold one
\* message for each violated rule and no other, in rule order (first_name,
\* last_name, email, hire_date, salary), and isValid is true exactly when
\* the list is empty.
C29_AllRules ==
  (checkedResult # <<>>) =>
     LET employee == checkedEmployee[1]
         result == checkedResult[1]
         violated == ViolatedRules(employee)
     IN /\ Len(result.errors) = Cardinality(violated)
        /\ \A rule \in violated :
              LET rank == Cardinality({ r \in violated : r <= rule })
              IN << result.errors[rank] >> = RuleMessage(rule, employee)
        /\ result.isValid = (result.errors = <<>>)
        /\ result.isValid = (violated = {})

\* a record that violates all five rules got all five messages
C29_Witness ==
  /\ checkedResult # <<>>
  /\ Len(checkedResult[1].errors) = 5
  /\ checkedEmployee[1].email # <<>>

\* ------------------------------------------------------------------- C30
NoWhitespace(s) == \A i \in 1..Len(s) : ~IsWhitespace(s[i])

\* the shape as the spec words it: at least one '@', at least one '.' after
\* it, no whitespace
BasicShape(email) ==
  /\ NoWhitespace(email)
  /\ \E at \in 1..Len(email), dot \in 1..Len(email) :
        email[at] = "@" /\ email[dot] = "." /\ dot > at

\* a non-empty run of characters that are neither whitespace nor '@'
Part(s) == s # <<>> /\ \A i \in 1..Len(s) : ~IsWhitespace(s[i]) /\ s[i] # "@"

\* local@domain.tld read strictly: three parts around an '@' and a '.'
StrictShape(email) ==
  \E at \in 1..Len(email), dot \in 1..Len(email) :
     /\ at < dot
     /\ email[at] = "@" /\ email[dot] = "."
     /\ Part(SubSeq(email, 1, at - 1))
     /\ Part(SubSeq(email, at + 1, dot - 1))
     /\ Part(SubSeq(email, dot + 1, Len(email)))

EmailAccepted == "Email format is invalid" \notin Range(checkedResult[1].errors)

\* C30 as stated: a present email passes the validator exactly when it has
\* at least one '@', at least one '.' after it and no whitespace; every other
\* non-empty email gets the email-format error.
C30_AsStated ==
  (checkedResult # <<>> /\ checkedEmployee[1].email # <<>>) =>
     (EmailAccepted <=> BasicShape(checkedEmployee[1].email))

\* C30 amended: a present email passes the validator exactly when it is a
\* non-empty local part, one '@', and a domain holding a '.' with at least
\* one character on each side of it, no part holding whitespace or a further
\* '@'; every other non-empty email gets the email-format error, and
\* every accepted email has the shape the spec words.
C30_EmailShape ==
  (checkedResult # <<>> /\ checkedEmployee[1].email # <<>>) =>
     /\ EmailAccepted <=> StrictShape(checkedEmployee[1].email)
     /\ EmailAccepted => BasicShape(checkedEmployee[1].email)
     /\ EmailAccepted => "Email is required" \notin Range(checkedResult[1].errors)

\* an email with two '@' was refused although it has the shape the spec words
C30_Witness ==
  /\ checkedResult # <<>>
  /\ checkedEmployee[1].email = <<"a", "@", "@", ".", "a">>
  /\ ~EmailAccepted

\* ------------------------------------------------------------------- C31
\* the batches waiting for the writer are the latest ones emitted, in order
WaitingAreLatest ==
  /\ Len(q3) <= Len(emitted)
  /\ q3 = SubSeq(emitted, Len(emitted) - Len(q3) + 1, Len(emitted))

\* the batches the writer has taken so far: the emitted ones not waiting
Consumed == SubSeq(emitted, 1, Len(emitted) - Len(q3))

\* C31: the writer has at most one batch in flight: it takes a batch only
\* when the batched attempt and the per-record fallback of the previous one
\* are over, the batch it takes is the oldest one waiting, which leaves the
\* queue for good, so every emitted batch is consumed exactly once and in
\* emission order.
C31_OneBatchInFlight ==
  [][ /\ WaitingAreLatest'
      /\ wstats'.totalProcessed = TotalLen(Consumed')
      /\ (Len(q3') > Len(q3)) =>
            /\ emitted' = Append(emitted, Last(emitted'))
            /\ q3' = Append(q3, Last(emitted'))
            /\ w' = w
      /\ (Len(q3') < Len(q3)) =>
            /\ w.pc = "idle"
            /\ q3' = Tail(q3)
            /\ w'.records = Head(q3)
            /\ w'.i = 1 /\ w'.calls = <<>> /\ w'.outcomes = <<>>
            /\ emitted' = emitted
      /\ (Len(q3') = Len(q3)) =>
            /\ q3' = q3
            /\ w'.records = w.records /\ w'.valid = w.valid
      /\ (w.pc # "idle") => Len(q3') >= Len(q3) ]_vars

\* the second batch is in its fallback loop while the third one waits
C31_Witness ==
  /\ Len(emitted) = 3
  /\ q3 = << emitted[3] >>
  /\ w.records = emitted[2]
  /\ w.pc = "fallback"
  /\ wstats.totalProcessed = 2

\* ------------------------------------------------------------------- C32
\* 0.8 x threshold <= sample <= threshold, the sample in hundredths of a MB
InBand(threshold, heapUsed) ==
  /\ heapUsed * RestoreDen >= threshold * PerMB * RestoreNum
  /\ heapUsed <= threshold * PerMB

\* C32 as stated: a sample with 0.8 x thresholdMB <= heapUsedMB <= thresholdMB,
\* both boundaries included, leaves ThrottleState as it was, whatever its
\* value, and emits neither 'threshold-exceeded' nor 'threshold-restored'.
C32_AsStated ==
  [][\A heapUsed \in SamplesAround(optThresholdMB) :
        (MemoryTick(heapUsed) /\ InBand(optThresholdMB, heapUsed)) =>
           (throttling' = throttling /\ signal' = "none")]_vars

\* C14 once the threshold is configured: ThrottleState turns true exactly on
\* a sample above thresholdMB and turns false only on a sample below
\* 0.8 x thresholdMB.
C14_AsStated ==
  [][\A heapUsed \in SamplesAround(optThresholdMB) :
        MemoryTick(heapUsed) =>
           /\ (~throttling => (throttling' <=> heapUsed > optThresholdMB * PerMB))
           /\ (throttling /\ ~throttling') =>
                 heapUsed * RestoreDen < optThresholdMB * PerMB * RestoreNum]_vars

\* ------------------------------------------------------------------- C33
\* the line numbers of the records the valve has forwarded, in the order in
\* which they went downstream
ForwardedLines ==
  [i \in 1..Len(batcherIn) |-> batcherIn[i].data.line]
    \o [i \in 1..Len(q2) |-> q2[i].data.line]
    \o [i \in 1..Len(q1) |-> q1[i].line]

HeldLines == [i \in 1..Len(held) |-> held[i].chunk.line]

\* C33: whatever the interleaving of samples and admissions, the valve
\* neither drops, duplicates nor reorders: the records it has forwarded,
\* followed by the one it may be delaying, are the records it received, in
\* the order received; its count is the number received; and after a
\* completed run everything received has been forwarded.
C33_ValveOrder ==
  /\ Len(held) <= 1
  /\ ForwardedLines \o HeldLines = [i \in 1..recordCount |-> i]
  /\ (pc = "done") => (held = <<>> /\ Len(ForwardedLines) = recordCount)

\* ThrottleState went back to false while the second record was parked
C33_Witness ==
  /\ held # <<>>
  /\ ~throttling /\ lastSignal = "threshold-restored"
  /\ recordCount = 2
  /\ Len(ForwardedLines) = 1

\* ------------------------------------------------------------------- C34
\* the rows the run has read, in order, as the validator received them
InputRows == [i \in 1..Len(batcherIn) |-> batcherIn[i].data]

\* a sequence cut into batches of `size`, the last one possibly shorter
RECURSIVE Chunks(_, _)
Chunks(seq, size) ==
  IF seq = <<>> THEN <<>>
  ELSE IF Len(seq) <= size THEN << seq >>
  ELSE << SubSeq(seq, 1, size) >> \o Chunks(SubSeq(seq, size + 1, Len(seq)), size)

\* the emails the table held before the run
InitialEmails == { store[r].email : r \in { k \in 1..Len(store) : store[k].line = 0 } }

\* the valid rows that bring an email the table does not hold yet
FreshRows ==
  { i \in 1..Len(InputRows) :
      /\ validateEmployee(InputRows[i]).isValid
      /\ InputRows[i].email \notin InitialEmails
      /\ \A j \in 1..(i - 1) :
            validateEmployee(InputRows[j]).isValid =>
               InputRows[j].email # InputRows[i].email }

ValidRows == { i \in 1..Len(InputRows) : validateEmployee(InputRows[i]).isValid }

\* the store answered every statement: no insert failed for a reason other
\* than the unique constraint
StoreAnswered ==
  storeUp /\ \A k \in 1..Len(wstats.errors) : wstats.errors[k].error # OtherMsg

\* C34: the final counters (total, valid, invalid, stored, failed) and the
\* emitted batches of a completed run are a function of the input, the
\* configuration and the table alone; no memory sample enters it, so two
\* runs that differ only in their samples end with the same counters and the
\* same batches.
C34_MonitorIndependence ==
  (pc = "done" /\ StoreAnswered) =>
     /\ stats.totalRecords = Len(InputRows)
     /\ stats.validRecords = Cardinality(ValidRows)
     /\ stats.invalidRecords = Len(InputRows) - Cardinality(ValidRows)
     /\ stats.storedRecords = Cardinality(FreshRows)
     /\ wstats.failedInserts = Cardinality(ValidRows) - Cardinality(FreshRows)
     /\ emitted = Chunks(AdmittedToBatcher, batchSize)
     /\ \A i \in 1..Len(batcherIn) :
           /\ batcherIn[i].data.line = i
           /\ batcherIn[i].valid = validateEmployee(batcherIn[i].data).isValid

\* a completed run during which throttling went on and off, with a record
\* stored and a duplicate refused
C34_Witness ==
  /\ pc = "done" /\ StoreAnswered
  /\ lastSignal = "threshold-restored"
  /\ stats.storedRecords >= 1
  /\ wstats.failedInserts >= 1
  /\ stats.totalRecords = MaxRows

\* ---------------------------------------------------------------------------
\* C35: acknowledgement of a batch by _write

\* the writer has finished the batch it holds
Finished == w.pc = "idle" /\ w.records # <<>>

Settled == client.pc \in {"returned", "thrown"}

LastStatement == client.statements[Len(client.statements)]

\* C36: batchInsert never leaks a client or an open transaction.  A client
\* that was acquired is not released while statements are still being sent,
\* and is released exactly once by the time the call returns or throws,
\* whichever of BEGIN, INSERT and COMMIT failed; a call that acquired none
\* releases none.  When the client is released after BEGIN succeeded, the last
\* statement sent on it is the COMMIT that succeeded (the call returns the
\* ids) or a ROLLBACK (the call throws).
C36_NoLeak ==
  /\ client.releases <= client.acquired
  /\ client.acquired \in {0, 1}
  /\ client.pc \in {"begin", "insert", "commit", "rollback", "finally"} =>
       client.acquired = 1 /\ client.releases = 0
  /\ Settled => client.releases = client.acquired
  /\ (client.releases = 1 /\ client.begun) =>
       IF client.result = "ids"
       THEN LastStatement = [text |-> "COMMIT", ok |-> TRUE]
       ELSE LastStatement.text = "ROLLBACK"

\* the call has thrown after COMMIT failed and ROLLBACK was rejected as well
C36_Witness ==
  /\ client.pc = "thrown"
  /\ client.begun
  /\ [text |-> "COMMIT", ok |-> FALSE] \in { client.statements[k] : k \in 1..Len(client.statements) }
  /\ LastStatement = [text |-> "ROLLBACK", ok |-> FALSE]
  /\ client.releases = 1

\* ---------------------------------------------------------------------------
\* C37: what the writer hands to the store

\* the data of the records of the batch in hand whose valid flag is true
ValidData == { w.records[k].data : k \in { j \in 1..Len(w.records) : w.records[j].valid } }

\* the batch in hand has no valid record
NoValidRecord == w.records # <<>> /\ ValidData = {}

\* C37: only records flagged valid reach the store, with or without the
\* batcher's filtering.  The list given to batchInsert, every employee given
\* to insert and every row pending in the transaction come from records of
\* the batch whose valid flag is true, and a batch without a valid record is
\* finished at once with no statement, no insert and no pending row.
C37_OnlyValidReachStore ==
  /\ \A i \in 1..Len(w.valid) : w.valid[i] \in ValidData
  /\ \A i \in 1..Len(w.calls) : w.calls[i] \in ValidData
  /\ w.pc = "commit" => txn = RowsOf(w.valid)
  /\ \A i \in 1..Len(txn) : \E employee \in ValidData : txn[i] = RowOf(employee)
  /\ NoValidRecord =>
       /\ w.pc = "idle"
       /\ w.path = "none"
       /\ w.calls = <<>>
       /\ w.outcomes = <<>>
       /\ txn = <<>>

\* without filtering, a batch of one valid and one invalid record has been
\* written: one employee was handed over
C37_Witness ==
  /\ ~validOnly
  /\ Finished
  /\ Len(w.records) = 2
  /\ Len(w.valid) = 1
  /\ w.path \in {"batch", "fallback"}

\* ---------------------------------------------------------------------------
\* C38: start and stop of the monitor

\* C38: start and stop are idempotent and stop is final for sampling.  A
\* start while running and a stop while stopped change nothing; while the
\* monitor is stopped no sample is captured, no transition signal is emitted
\* and the throttle state keeps its value; and the throttle state changes
\* only in a step of the sample handler.
C38_StartStop ==
  [][/\ (running /\ MemoryMonitorStart) => UNCHANGED vars
     /\ (~running /\ MemoryMonitorStop) => UNCHANGED vars
     /\ ~running =>
          /\ captured' = captured
          /\ heapUsedData' = heapUsedData
          /\ signal' = signal
          /\ lastSignal' = lastSignal
          /\ throttling' = throttling
     /\ throttling' # throttling =>
          \E heapUsed \in SamplesAround(optThresholdMB) : MemoryTick(heapUsed)]_vars

\* the monitor was stopped while throttling, after at least one sample and
\* a recorded maximum
C38_Witness ==
  /\ ~running
  /\ throttling
  /\ captured > 0
  /\ maxMemoryUsed > 0
  /\ lastSignal = "threshold-exceeded"

\* ---------------------------------------------------------------------------
\* C39: what getStats reports against the window

\* the smallest retained sample
WindowMin == CHOOSE m \in { heapUsedData[k] : k \in 1..Len(heapUsedData) } :
               \A k \in 1..Len(heapUsedData) : m <= heapUsedData[k]

\* C39 as stated: after any sequence of start, sample and stop, the maximum
\* reported by getStats is at least every retained heap-used sample, and the
\* reported average lies between the smallest retained sample and that
\* maximum.
C39_AsStated ==
  LET reported == getStats(heapUsedData, maxMemoryUsed)
  IN /\ \A k \in 1..Len(heapUsedData) : heapUsedData[k] <= reported.max
     /\ heapUsedData # <<>> =>
          /\ WindowMin * reported.length <= reported.sum
          /\ reported.sum <= reported.max * reported.length

====
